---------------------------- MODULE Spec2Model ----------------------------
(***************************************************************************)
(* Audiemar/AITool: the serverless handlers that fan a prompt out to LLM   *)
(* providers, score the answers, build a report and mail it.               *)
(*                                                                         *)
(* One behaviour of the model is one HTTP request served by one of the     *)
(* handler variants of the repository:                                     *)
(*   "testai"  src/test-ai.js                         exports.handler      *)
(*   "credits" src/netlify/functions/process-ai-test.js:297 exports.handler*)
(*   "ledger"  src/netlify/functions/process-ai-test.js:451 exports.handler*)
(*   "paypal"  src/netlify/functions/paypal-webhook.js:349 default export  *)
(*   "webhook" src/netlify/functions/paypal-webhook.js:2 default export    *)
(* The providers, the e-mail service and the credit ledger are the         *)
(* environment: what they answer is drawn nondeterministically when the    *)
(* answer arrives; a provider that never answers is a call that stays      *)
(* "pending" forever.                                                      *)
(*                                                                         *)
(* Scores are kept in tenths of a point (60 is 6.0).                       *)
(***************************************************************************)
EXTENDS Integers, Sequences, FiniteSets, TLC

VARIABLES
    variant,      \* which handler serves the request
    method,       \* event.httpMethod / request.method
    bodyOk,       \* the request body parses as JSON
    prompt,       \* "missing" | "empty" | "text": the body's prompt field
    selPresent,   \* the body has a selectedAIs field
    selectedAIs,  \* its value, a sequence of names
    keys,         \* names of the providers whose credential is in process.env
    creditsUsed,  \* the body's creditsUsed field
    emailValid,   \* the body's email is a string containing "@"
    toolType,     \* the body's toolType field, "general" when absent
    event,        \* webhook: what the PayPal payload announces
    pc,           \* the handler's position
    idx,          \* the for-loop's position in selectedAIs (sequential variants)
    calls,        \* the provider fetches issued so far, in issue order
    results,      \* the results object: its entries in insertion order
    failedCount,  \* credits variant: let failedCount
    allSuccessful, \* ledger variant: let allSuccessful
    ledger,       \* requests sent to the credit ledger, in order
    emails,       \* requests sent to the e-mail service, in order
    forwards,     \* webhook: orders posted to process-ai-test, in order
    report,       \* what the report / analysis names
    resp          \* the HTTP response returned, or NoResp

vars == <<variant, method, bodyOk, prompt, selPresent, selectedAIs, keys,
          creditsUsed, emailValid, toolType, event, pc, idx, calls, results,
          failedCount, allSuccessful, ledger, emails, forwards, report, resp>>

input == <<variant, method, bodyOk, prompt, selPresent, selectedAIs, keys,
           creditsUsed, emailValid, toolType, event>>

---------------------------------------------------------------------------
(* Bounds of the model.                                                    *)

\* longest selectedAIs list a request carries
MaxSel == 2

\* largest creditsUsed a request carries
MaxCredits == 2

\* most texts scored in one behaviour of the scorer's specification
MaxScored == 2

---------------------------------------------------------------------------
(* Names.                                                                  *)

Variants == {"testai", "credits", "ledger", "paypal"}

\* Names a request may list: two of the three every variant knows, the one
\* only test-ai.js knows, and one no variant knows.  "Gemini", which every
\* variant treats as it treats "Claude", is reached through the default
\* list.  (Names that are properties of Object.prototype are not drawn.)
InputNames == {"ChatGPT", "Claude", "Perplexity", "Mistral"}

\* the providers / apiKeys / configs tables of the sequential variants
KnownAIs == {"ChatGPT", "Claude", "Gemini"}

\* the four includes() tests of test-ai.js, in source order
TestAIOrder == <<"ChatGPT", "Claude", "Gemini", "Perplexity">>

\* orderData.selectedAIs || ['Claude', 'Gemini', 'ChatGPT']
DefaultAIs == <<"Claude", "Gemini", "ChatGPT">>

\* paypal-webhook.js: orderData.selectedAIs || ['ChatGPT', 'Claude', 'Gemini']
PaypalDefaultAIs == <<"ChatGPT", "Claude", "Gemini">>

Range(s) == {s[i] : i \in DOMAIN s}

SeqsUpTo(S, n) == UNION {[1..k -> S] : k \in 0..n}

---------------------------------------------------------------------------
(* Texts.  A value of a JavaScript variable that is meant to hold a        *)
(* response text is named by a string:                                     *)
(*   "short"     the provider's text "Paris"                               *)
(*   "long"      the provider's text: three paragraphs, separated by a     *)
(*               blank line, of twenty times the sentence                  *)
(*               "We recommend testing, for example with care."            *)
(*   "errword"   the provider's text                                       *)
(*               "Error: division by zero means the divisor was 0."        *)
(*   "empty"     the provider's text ""                                    *)
(*   "tip"       the text                                                  *)
(*               "We recommend this, for example. You should try."         *)
(*   "medium"    the text: two paragraphs, separated by a blank line, of   *)
(*               four times the sentence                                   *)
(*               "The cat sat on the mat and looked at the sky."           *)
(*   "callErr:net", "callErr:httpBody", "callErr:httpStatus",              *)
(*   "callErr:noPath"   what callAI's catch returns:                       *)
(*               `Error: Could not get response from ${provider}. ` then   *)
(*               "fetch failed" / "openai API error: 500 - Internal Server *)
(*               Error" / "openai API error: 500 Internal Server Error" /  *)
(*               "Cannot read properties of undefined (reading '0')"       *)
(*   "noKey"     `Error: Missing API key for ${ai}` (credits),             *)
(*               `Error: ${ai} API key not configured` (paypal)            *)
(*   "failed"    `Failed to get response from ${ai}` (test-ai.js)          *)
(*   "No response"  the placeholder of getAIConfig's parseResponse         *)
(*   "undefined", "number"  not a string: the value undefined, a number    *)
(* Feat gives what the scorers' regular expressions and splits measure on  *)
(* each text.                                                              *)

BodyTexts == {"short", "long", "errword"}

IsString(t) == t \notin {"undefined", "number"}

Plain ==
    [len |-> 0, words |-> 1, sents |-> 0, paras |-> 1, segs |-> 1,
     spWords |-> 1, nl |-> FALSE, star |-> FALSE, dash |-> FALSE,
     oneDot |-> FALSE, digitDot |-> FALSE, bullet |-> FALSE,
     example |-> FALSE, action |-> FALSE, fin |-> FALSE, mkt |-> FALSE,
     errMark |-> FALSE, promptWord |-> FALSE]

Feat(t) ==
    CASE t = "empty" -> Plain
      [] t = "short" ->
            [Plain EXCEPT !.len = 5, !.sents = 1]
      [] t = "long" ->
            [Plain EXCEPT !.len = 2701, !.words = 420, !.sents = 60,
                          !.paras = 3, !.segs = 61, !.spWords = 418,
                          !.nl = TRUE, !.example = TRUE, !.action = TRUE]
      [] t = "tip" ->
            [Plain EXCEPT !.len = 47, !.words = 8, !.sents = 2, !.segs = 3,
                          !.spWords = 8, !.example = TRUE, !.action = TRUE]
      [] t = "medium" ->
            [Plain EXCEPT !.len = 368, !.words = 88, !.sents = 8,
                          !.paras = 2, !.segs = 9, !.spWords = 87,
                          !.nl = TRUE]
      [] t = "errword" ->
            [Plain EXCEPT !.len = 48, !.words = 9, !.sents = 1, !.segs = 2,
                          !.spWords = 9, !.digitDot = TRUE, !.errMark = TRUE]
      [] t = "callErr:net" ->
            [Plain EXCEPT !.len = 55, !.words = 9, !.sents = 2, !.segs = 2,
                          !.spWords = 9, !.errMark = TRUE]
      [] t = "callErr:httpBody" ->
            [Plain EXCEPT !.len = 88, !.words = 15, !.sents = 2, !.segs = 2,
                          !.spWords = 15, !.dash = TRUE, !.errMark = TRUE]
      [] t = "callErr:httpStatus" ->
            [Plain EXCEPT !.len = 86, !.words = 14, !.sents = 2, !.segs = 2,
                          !.spWords = 14, !.errMark = TRUE]
      [] t = "callErr:noPath" ->
            [Plain EXCEPT !.len = 92, !.words = 14, !.sents = 2, !.segs = 2,
                          !.spWords = 14, !.errMark = TRUE]
      [] t = "noKey" ->
            [Plain EXCEPT !.len = 34, !.words = 6, !.sents = 1,
                          !.spWords = 6, !.errMark = TRUE]
      [] t = "failed" ->
            [Plain EXCEPT !.len = 35, !.words = 6, !.sents = 1,
                          !.spWords = 6]
      [] t = "No response" ->
            [Plain EXCEPT !.len = 11, !.words = 2, !.sents = 1,
                          !.spWords = 2]

\* response.includes('Error:'), response being a string
IncludesError(t) == Feat(t).errMark

Min(a, b) == IF a < b THEN a ELSE b

Take(s, n) == SubSeq(s, 1, Min(n, Len(s)))

Opt(c, x) == IF c THEN <<x>> ELSE <<>>

---------------------------------------------------------------------------
(* The scorers.                                                            *)

\* analyzeResponse of the credits variant: the flags
CreditsFlags(t) ==
    LET f == Feat(t) IN
    [detailed |-> f.words > 150,
     structure |-> f.nl \/ f.star \/ f.dash \/ f.digitDot,
     coherent |-> f.sents > 1 /\ f.words < 40 * f.sents,
     examples |-> f.example,
     actionable |-> f.action]

\* analyzeResponse of the credits variant: the score, in tenths
CreditsScore(t, tool) ==
    LET f == Feat(t)
        g == CreditsFlags(t)
        realEstate == tool # "general"
        raw == 60
               + (IF g.detailed THEN 15 ELSE 0)
               + (IF g.structure THEN 10 ELSE 0)
               + (IF g.coherent THEN 10 ELSE 0)
               + (IF g.examples THEN 5 ELSE 0)
               + (IF g.actionable THEN 10 ELSE 0)
               + (IF f.len > 500 THEN 5 ELSE 0)
               + (IF f.paras > 2 THEN 5 ELSE 0)
               + (IF realEstate /\ f.fin THEN 5 ELSE 0)
               + (IF realEstate /\ f.mkt THEN 5 ELSE 0)
    IN  Min(raw, 100)

CreditsAnalyze(t, tool) ==
    LET f == Feat(t)
        g == CreditsFlags(t)
        pros == Opt(g.detailed, "Comprehensive and detailed analysis")
                \o Opt(g.structure, "Well-organized professional format")
                \o Opt(g.coherent, "Clear and coherent presentation")
                \o Opt(g.examples, "Includes relevant examples")
                \o Opt(g.actionable, "Provides actionable recommendations")
        cons == Opt(~g.detailed, "Could provide more detailed analysis")
                \o Opt(~g.structure, "Could improve formatting structure")
                \o Opt(~g.coherent, "Could improve clarity and flow")
                \o Opt(f.words < 100, "Analysis could be more comprehensive")
    IN  [score |-> CreditsScore(t, tool),
         pros |-> Take(pros, 3),
         cons |-> Take(cons, 2)]

\* analyzeResponse of paypal-webhook.js: the flags
PaypalFlags(t) ==
    LET f == Feat(t) IN
    [detailed |-> f.words > 75,
     structure |-> f.nl \/ f.star \/ f.dash \/ f.oneDot,
     coherent |-> f.sents > 1 /\ f.words < 40 * f.sents,
     examples |-> f.example,
     actionable |-> f.action]

PaypalScore(t) ==
    LET f == Feat(t)
        g == PaypalFlags(t)
        raw == 50
               + (IF g.detailed THEN 10 ELSE 0)
               + (IF g.structure THEN 10 ELSE 0)
               + (IF g.coherent THEN 10 ELSE 0)
               + (IF g.examples THEN 5 ELSE 0)
               + (IF g.actionable THEN 5 ELSE 0)
               + (IF f.len > 300 THEN 5 ELSE 0)
               + (IF f.paras > 1 THEN 5 ELSE 0)
    IN  Min(raw, 100)

PaypalAnalyze(t) ==
    LET f == Feat(t)
        g == PaypalFlags(t)
        pros == Opt(g.detailed, "Detailed and comprehensive")
                \o Opt(g.structure, "Well-structured format")
                \o Opt(g.coherent, "Clear and coherent")
                \o Opt(g.examples, "Includes helpful examples")
                \o Opt(g.actionable, "Provides actionable advice")
        cons == Opt(~g.detailed, "Could be more detailed")
                \o Opt(~g.structure, "Could use better formatting")
                \o Opt(~g.coherent, "Could improve flow")
                \o Opt(f.words < 50, "Quite brief")
    IN  [score |-> PaypalScore(t),
         pros |-> Take(pros, 3),
         cons |-> Take(cons, 2)]

\* analyzeResponseQuality of test-ai.js: the number before "/10", in tenths.
\* The first word of an empty prompt is "", which every text includes.
QualityScore(t, p) ==
    LET f == Feat(t)
        raw == 70
               + (IF f.len > 200 /\ f.len < 2000 THEN 10 ELSE 0)
               + (IF f.segs > 2 /\ f.segs < 15 THEN 10 ELSE 0)
               + (IF f.spWords > 50 /\ f.spWords < 300 THEN 10 ELSE 0)
               + (IF f.nl \/ f.bullet \/ f.dash THEN 5 ELSE 0)
               + (IF p = "empty" \/ f.promptWord THEN 5 ELSE 0)
    IN  Min(raw, 100)

---------------------------------------------------------------------------
(* Requests and the environment.                                           *)

Methods == {"OPTIONS", "GET", "POST"}

Prompts == {"missing", "empty", "text"}

ToolTypes == {"general", "real-estate-investment"}

\* What a provider does with one call: answer 2xx with one of the texts of
\* BodyTexts or with the text "" ("empty"); answer 2xx with a body whose
\* text field is absent (content: [{}]), is a number, or whose path is
\* missing altogether (no content array); answer non-2xx; fail in transport.
Behaviours == BodyTexts \cup {"empty", "absent", "number", "noPath", "http", "net"}

\* the providers whose credential the variant reads from process.env
CredNames(v) == IF v = "testai" THEN Range(TestAIOrder) ELSE KnownAIs

\* the list the sequential variants iterate over
Selected(v, present, sel) ==
    CASE ~present /\ v = "credits" -> DefaultAIs
      [] ~present /\ v = "paypal" -> PaypalDefaultAIs
      [] OTHER -> sel

\* A request that gets past the method test and JSON.parse.  Fields a
\* variant never reads take one value; so do the credentials of providers
\* the request does not select.
WellFormed(v) ==
    {[method |-> "POST", bodyOk |-> TRUE, prompt |-> p, selPresent |-> sp,
      selectedAIs |-> sel, keys |-> k, creditsUsed |-> c, emailValid |-> e,
      toolType |-> t] :
        p \in Prompts, sp \in BOOLEAN, sel \in SeqsUpTo(InputNames, MaxSel),
        k \in SUBSET CredNames(v), c \in 0..MaxCredits, e \in BOOLEAN,
        t \in ToolTypes}

Canonical(v, r) ==
    /\ r.selPresent \/ r.selectedAIs = <<>>
    /\ r.keys \subseteq Range(Selected(v, r.selPresent, r.selectedAIs))
    /\ v \in {"credits", "ledger"} \/ r.creditsUsed = 0
    /\ v = "credits" \/ r.emailValid
    /\ v = "credits" \/ r.toolType = "general"

Unread(m, ok) ==
    [method |-> m, bodyOk |-> ok, prompt |-> "missing", selPresent |-> FALSE,
     selectedAIs |-> <<>>, keys |-> {}, creditsUsed |-> 0,
     emailValid |-> TRUE, toolType |-> "general"]

Requests(v) ==
    {Unread("OPTIONS", TRUE), Unread("GET", TRUE), Unread("POST", FALSE)}
    \cup {r \in WellFormed(v) : Canonical(v, r)}

\* the method test with nothing refused
MethodAllowed_Any(m) == TRUE

\* if (event.httpMethod !== 'POST') return 405, read as its negation
MethodAllowed(m) == m = "POST"

NoResp == [status |-> 0, kind |-> "none"]

NoReport == [built |-> FALSE]

InitFor(v) ==
    \E r \in Requests(v) :
        /\ variant = v
        /\ method = r.method
        /\ bodyOk = r.bodyOk
        /\ prompt = r.prompt
        /\ selPresent = r.selPresent
        /\ selectedAIs = r.selectedAIs
        /\ keys = r.keys
        /\ creditsUsed = r.creditsUsed
        /\ emailValid = r.emailValid
        /\ toolType = r.toolType
        /\ event = "none"
        /\ forwards = <<>>
        /\ pc = "start"
        /\ idx = 1
        /\ calls = <<>>
        /\ results = <<>>
        /\ failedCount = 0
        /\ allSuccessful = TRUE
        /\ ledger = <<>>
        /\ emails = <<>>
        /\ report = NoReport
        /\ resp = NoResp

Init == \E v \in Variants : InitFor(v)

\* results[rec.ai] = rec: a new key goes last, an old key keeps its place
Put(res, rec) ==
    IF \E i \in DOMAIN res : res[i].ai = rec.ai
    THEN [i \in DOMAIN res |-> IF res[i].ai = rec.ai THEN rec ELSE res[i]]
    ELSE Append(res, rec)

Keys(res) == {res[i].ai : i \in DOMAIN res}

Get(res, ai) == res[CHOOSE i \in DOMAIN res : res[i].ai = ai]

\* return { statusCode, ... }
Respond(status, kind) ==
    /\ resp' = [status |-> status, kind |-> kind]
    /\ pc' = "done"

\* fetch(url, ...) to a provider: the call joins the log, unanswered.
\* timer: the fetch carries an AbortSignal.timeout.
Fetch(ai, timer) ==
    [ai |-> ai, st |-> "pending", beh |-> "", keyed |-> ai \in keys,
     timer |-> timer]

Pending(i) == i \in DOMAIN calls /\ calls[i].st = "pending"

\* An entry of results.  response: the text; error: the entry has an error
\* field (test-ai.js, ledger variant); score, pros, cons: its analysis /
\* quality, score being <<>> where the entry carries none ('N/A').
\* cause is not a field of the program: it records which event produced
\* the entry (a provider behaviour, "noKey", "noConfig" or "timeout").
Outcome(ai, response, error, score, pros, cons, cause) ==
    [ai |-> ai, response |-> response, error |-> error, score |-> score,
     pros |-> pros, cons |-> cons, cause |-> cause]

\* the provider's call went through and returned a text
Succeeded(o) == o.cause \in BodyTexts

---------------------------------------------------------------------------
(* src/test-ai.js                                                          *)

ExtractPros(ai) ==
    CASE ai = "ChatGPT" ->
            <<"Clear explanations", "Good structure", "Comprehensive coverage">>
      [] ai = "Claude" ->
            <<"Thoughtful analysis", "Nuanced perspective", "Well-reasoned">>
      [] ai = "Gemini" ->
            <<"Fast response", "Concise format", "Direct answers">>
      [] ai = "Perplexity" ->
            <<"Real-time data", "Citations included", "Research-focused">>
      [] OTHER -> <<"Good response", "Relevant content", "Clear format">>

ExtractCons(ai) ==
    CASE ai = "ChatGPT" -> <<"Can be verbose", "Generic tone">>
      [] ai = "Claude" -> <<"Sometimes overthinks", "Longer responses">>
      [] ai = "Gemini" -> <<"Less detailed", "Basic analysis">>
      [] ai = "Perplexity" -> <<"Can be academic", "Research-heavy">>
      [] OTHER -> <<"Standard limitations", "Could be more detailed">>

\* testChatGPT / testClaude / testGemini / testPerplexity: what the function
\* returns once the provider has behaved as beh.  Everything after the
\* fetch sits in the try: a non-2xx answer, a missing path, and a text
\* analyzeResponseQuality cannot measure (undefined, a number, or any text
\* when the prompt is no string) all end in the catch.
TestProvider(ai, beh, p) ==
    LET text == IF beh = "empty" THEN "empty" ELSE beh IN
    IF beh \in BodyTexts \cup {"empty"} /\ p # "missing"
    THEN Outcome(ai, text, FALSE, <<QualityScore(text, p)>>,
                 ExtractPros(ai), ExtractCons(ai), beh)
    ELSE Outcome(ai, "failed", TRUE, <<>>, <<>>, <<>>, beh)

\* the names the handler tests with selectedAIs.includes, in source order
TestAITargets(sel) == SelectSeq(TestAIOrder, LAMBDA n : n \in Range(sel))

RECURSIVE BestFrom(_, _, _, _)
\* determineWinner's forEach from entry i on, bestAI and bestScore so far
BestFrom(res, i, bestAI, bestScore) ==
    IF i > Len(res) THEN bestAI
    ELSE IF res[i].score # <<>> /\ res[i].score[1] > bestScore
         THEN BestFrom(res, i + 1, res[i].ai, res[i].score[1])
         ELSE BestFrom(res, i + 1, bestAI, bestScore)

DetermineWinner(res) == BestFrom(res, 1, "ChatGPT", 0)

\* await Promise.all(promises) resumes
TestAI_RaceReady ==
    calls = <<>> \/ \E i \in DOMAIN calls : calls[i].st # "pending"

TestAIJoinReady == \A i \in DOMAIN calls : calls[i].st # "pending"

\* The handler up to `await Promise.all(promises)`: the method tests, the
\* parse, and every selected provider's fetch, issued back to back.
TestAIStart ==
    /\ variant = "testai"
    /\ pc = "start"
    /\ IF method = "OPTIONS" THEN
            Respond(200, "preflight") /\ UNCHANGED calls
       ELSE IF ~MethodAllowed(method) THEN
            Respond(405, "methodNotAllowed") /\ UNCHANGED calls
       ELSE IF ~bodyOk \/ ~selPresent THEN
            \* JSON.parse throws, or selectedAIs.join does
            Respond(500, "errorWithMessage") /\ UNCHANGED calls
       ELSE /\ calls' = [i \in DOMAIN TestAITargets(selectedAIs) |->
                            Fetch(TestAITargets(selectedAIs)[i], FALSE)]
            /\ pc' = "await"
            /\ UNCHANGED resp
    /\ UNCHANGED <<input, forwards, idx, results, failedCount, allSuccessful, ledger,
                   emails, report>>

\* One provider answers (or its fetch fails); the .then callback stores
\* what the test function returned.
TestAISettle ==
    /\ variant = "testai"
    /\ pc = "await"
    /\ \E i \in DOMAIN calls, beh \in Behaviours :
        /\ calls[i].st = "pending"
        /\ calls' = [calls EXCEPT ![i].st = "settled", ![i].beh = beh]
        /\ results' = Put(results, TestProvider(calls[i].ai, beh, prompt))
    /\ UNCHANGED <<input, forwards, pc, idx, failedCount, allSuccessful, ledger, emails,
                   report, resp>>

\* Promise.all resolves; generateAnalysis; the response.  prompt.substring
\* throws when the prompt is missing.
TestAIJoin ==
    /\ variant = "testai"
    /\ pc = "await"
    /\ TestAIJoinReady
    /\ IF prompt = "missing" THEN
            Respond(500, "errorWithMessage") /\ UNCHANGED report
       ELSE /\ report' = [built |-> TRUE,
                          winner |-> <<DetermineWinner(results)>>,
                          ranked |-> <<>>, detail |-> FALSE,
                          recommend |-> TRUE, allFailed |-> FALSE]
            /\ Respond(200, "ok")
    /\ UNCHANGED <<input, forwards, idx, calls, results, failedCount, allSuccessful,
                   ledger, emails>>

NextTestAI == TestAIStart \/ TestAISettle \/ TestAIJoin

SpecTestAI == InitFor("testai") /\ [][NextTestAI]_vars

---------------------------------------------------------------------------
(* The sequential variants: helpers shared by the copies of callAI and of  *)
(* the for-loop in process-ai-test.js and paypal-webhook.js.               *)

\* What the e-mail service or the ledger does with one request: accept it
\* (2xx), reject it (non-2xx), or the fetch throws.
Answers == {"ok", "rejected", "neterr"}

\* callAI: the value it resolves to once the provider has behaved as beh.
\* A non-2xx answer, a transport error and a missing path throw inside the
\* try and come back as the catch's `Error: ...` text; a path whose last
\* field is absent, empty or a number is returned as it is.
CallAI(v, beh) ==
    CASE beh \in BodyTexts -> beh
      [] beh = "empty" -> "empty"
      [] beh = "absent" -> "undefined"
      [] beh = "number" -> "number"
      [] beh = "noPath" -> "callErr:noPath"
      [] beh = "http" ->
            IF v = "credits" THEN "callErr:httpBody" ELSE "callErr:httpStatus"
      [] beh = "net" -> "callErr:net"

RECURSIVE SortFrom(_, _, _)
\* aiNames.sort((a, b) => results[b].analysis.score - results[a].analysis.score):
\* a stable sort, highest score first; entries i.. of res inserted into acc
SortFrom(res, i, acc) ==
    IF i > Len(res) THEN acc
    ELSE LET k == Cardinality({j \in DOMAIN acc :
                                  acc[j].score[1] >= res[i].score[1]})
         IN  SortFrom(res, i + 1,
                      SubSeq(acc, 1, k) \o <<res[i]>>
                      \o SubSeq(acc, k + 1, Len(acc)))

SortedNames(res) ==
    LET sorted == SortFrom(res, 1, <<>>)
    IN  [i \in DOMAIN sorted |-> sorted[i].ai]

\* for (const ai of selectedAIs): the list and the loop's test
LoopList == Selected(variant, selPresent, selectedAIs)

LoopDone == idx > Len(LoopList)

---------------------------------------------------------------------------
(* src/netlify/functions/process-ai-test.js, the credits variant           *)
(* (lines 1-448).                                                          *)

\* generateComparisonReport: what the report names.  winner: the name on
\* the "Best Analysis" line; ranked: the "Detailed AI Analysis Results"
\* sections in order; recommend: the "Professional Recommendations" section;
\* allFailed: the "All AI analyses failed - credits have been refunded" line.
CreditsReport(res) ==
    LET sorted == SortedNames(res)
        workingAIs == {i \in DOMAIN res : ~IncludesError(res[i].response)}
    IN  IF workingAIs # {}
        THEN [built |-> TRUE, winner |-> <<sorted[1]>>, ranked |-> sorted,
              detail |-> TRUE, recommend |-> TRUE, allFailed |-> FALSE]
        ELSE [built |-> TRUE, winner |-> <<>>, ranked |-> <<>>,
              detail |-> FALSE, recommend |-> FALSE, allFailed |-> TRUE]

\* the method tests and JSON.parse
CreditsStart ==
    /\ variant = "credits"
    /\ pc = "start"
    /\ IF method = "OPTIONS" THEN Respond(200, "preflight")
       ELSE IF ~MethodAllowed(method) THEN Respond(405, "methodNotAllowed")
       ELSE IF ~bodyOk THEN Respond(500, "error")
       ELSE pc' = "loop" /\ UNCHANGED resp
    /\ UNCHANGED <<input, forwards, idx, calls, results, failedCount, allSuccessful,
                   ledger, emails, report>>

\* One turn of the loop up to its await: a provider without a key gets its
\* entry at once; for the others callAI issues the fetch.
CreditsLoop ==
    /\ variant = "credits"
    /\ pc = "loop"
    /\ ~LoopDone
    /\ LET ai == LoopList[idx] IN
       IF ai \notin keys
       THEN /\ results' = Put(results,
                    Outcome(ai, "noKey", FALSE, <<0>>, <<>>,
                            <<"Missing API key">>, "noKey"))
            /\ failedCount' = failedCount + 1
            /\ idx' = idx + 1
            /\ UNCHANGED <<pc, calls>>
       ELSE /\ calls' = Append(calls, Fetch(ai, FALSE))
            /\ pc' = "call"
            /\ UNCHANGED <<results, failedCount, idx>>
    /\ UNCHANGED <<input, forwards, allSuccessful, ledger, emails, report, resp>>

\* callAI resolves and the loop's turn ends.  response.includes throws on a
\* value that is no string: the outer catch answers 500.
CreditsSettle ==
    /\ variant = "credits"
    /\ pc = "call"
    /\ \E beh \in Behaviours :
        LET i == Len(calls)
            ai == calls[i].ai
            r == CallAI("credits", beh)
            a == CreditsAnalyze(r, toolType)
        IN  /\ calls' = [calls EXCEPT ![i].st = "settled", ![i].beh = beh]
            /\ IF ~IsString(r)
               THEN /\ Respond(500, "error")
                    /\ UNCHANGED <<results, failedCount, idx>>
               ELSE /\ failedCount' =
                          failedCount + (IF IncludesError(r) THEN 1 ELSE 0)
                    /\ results' = Put(results,
                          Outcome(ai, r, FALSE, <<a.score>>, a.pros, a.cons,
                                  beh))
                    /\ idx' = idx + 1
                    /\ pc' = "loop"
                    /\ UNCHANGED resp
    /\ UNCHANGED <<input, forwards, allSuccessful, ledger, emails, report>>

\* sendResultsEmail with the status test left out: true once the fetch
\* resolved
SendResultsEmail_StatusIgnored(valid, mail) == valid /\ mail # "neterr"

\* sendResultsEmail: false at once on an address that is no string with an
\* "@"; response.ok of the e-mail service otherwise, false when the fetch
\* throws
SendResultsEmail(valid, mail) == valid /\ mail = "ok"

\* After the loop: creditInfo, the report, the e-mail, the 200 response.
\* sendResultsEmail returns false without a fetch on an invalid address.
CreditsFinish ==
    /\ variant = "credits"
    /\ pc = "loop"
    /\ LoopDone
    /\ report' = CreditsReport(results)
    /\ \E mail \in Answers :
        /\ emailValid \/ mail = "ok"
        /\ emails' = IF emailValid THEN Append(emails, mail) ELSE emails
        /\ resp' = [status |-> 200, kind |-> "ok",
                    emailSent |-> SendResultsEmail(emailValid, mail),
                    creditInfo |-> [used |-> creditsUsed,
                                    refunded |-> failedCount,
                                    net |-> creditsUsed - failedCount],
                    failedAIs |-> SelectSeq(LoopList,
                        LAMBDA n : IncludesError(Get(results, n).response))]
    /\ pc' = "done"
    /\ UNCHANGED <<input, forwards, idx, calls, results, failedCount, allSuccessful,
                   ledger>>

NextCredits == CreditsStart \/ CreditsLoop \/ CreditsSettle \/ CreditsFinish

SpecCredits == InitFor("credits") /\ [][NextCredits]_vars

---------------------------------------------------------------------------
(* src/netlify/functions/paypal-webhook.js, the process-ai-test copy       *)
(* (lines 123-449).                                                        *)

\* generateComparisonReport: the winner is sortedByScore[0] whatever failed
PaypalReport(res) ==
    LET sorted == SortedNames(res)
    IN  [built |-> TRUE, winner |-> <<sorted[1]>>, ranked |-> sorted,
         detail |-> TRUE, recommend |-> TRUE, allFailed |-> FALSE]

\* the method tests and request.json()
PaypalStart ==
    /\ variant = "paypal"
    /\ pc = "start"
    /\ IF method = "OPTIONS" THEN Respond(200, "preflight")
       ELSE IF ~MethodAllowed(method) THEN Respond(405, "methodNotAllowedText")
       ELSE IF ~bodyOk THEN Respond(500, "errorWithMessage")
       ELSE pc' = "loop" /\ UNCHANGED resp
    /\ UNCHANGED <<input, forwards, idx, calls, results, failedCount, allSuccessful,
                   ledger, emails, report>>

\* one turn of the loop up to its await
PaypalLoop ==
    /\ variant = "paypal"
    /\ pc = "loop"
    /\ ~LoopDone
    /\ LET ai == LoopList[idx] IN
       IF ai \notin keys
       THEN /\ results' = Put(results,
                    Outcome(ai, "noKey", FALSE, <<0>>, <<>>,
                            <<"Service unavailable">>, "noKey"))
            /\ idx' = idx + 1
            /\ UNCHANGED <<pc, calls>>
       ELSE /\ calls' = Append(calls, Fetch(ai, FALSE))
            /\ pc' = "call"
            /\ UNCHANGED <<results, idx>>
    /\ UNCHANGED <<input, forwards, failedCount, allSuccessful, ledger, emails,
                   report, resp>>

\* callAI resolves; analyzeResponse throws on a value that is no string
\* (response.length of undefined, response.split of a number).
PaypalSettle ==
    /\ variant = "paypal"
    /\ pc = "call"
    /\ \E beh \in Behaviours :
        LET i == Len(calls)
            ai == calls[i].ai
            r == CallAI("paypal", beh)
            a == PaypalAnalyze(r)
        IN  /\ calls' = [calls EXCEPT ![i].st = "settled", ![i].beh = beh]
            /\ IF ~IsString(r)
               THEN /\ Respond(500, "errorWithMessage")
                    /\ UNCHANGED <<results, idx>>
               ELSE /\ results' = Put(results,
                          Outcome(ai, r, FALSE, <<a.score>>, a.pros, a.cons,
                                  beh))
                    /\ idx' = idx + 1
                    /\ pc' = "loop"
                    /\ UNCHANGED resp
    /\ UNCHANGED <<input, forwards, failedCount, allSuccessful, ledger, emails, report>>

\* After the loop: sendResultsEmail builds the report and posts it, all in
\* one try (an empty results object makes the report throw before any
\* fetch); then the 200 response.
PaypalFinish ==
    /\ variant = "paypal"
    /\ pc = "loop"
    /\ LoopDone
    /\ \E mail \in Answers :
        /\ results # <<>> \/ mail = "ok"
        /\ report' = IF results # <<>> THEN PaypalReport(results) ELSE report
        /\ emails' = IF results # <<>> THEN Append(emails, mail) ELSE emails
        /\ resp' = [status |-> 200, kind |-> "ok",
                    emailSent |-> results # <<>> /\ mail = "ok"]
    /\ pc' = "done"
    /\ UNCHANGED <<input, forwards, idx, calls, results, failedCount, allSuccessful,
                   ledger>>

NextPaypal == PaypalStart \/ PaypalLoop \/ PaypalSettle \/ PaypalFinish

SpecPaypal == InitFor("paypal") /\ [][NextPaypal]_vars

---------------------------------------------------------------------------
(* src/netlify/functions/process-ai-test.js, the ledger variant            *)
(* (lines 450-787).                                                        *)

\* processAI with config.parseResponse: the entry stored once the provider
\* has behaved as beh.  `?.` and `|| 'No response'` turn an absent or empty
\* text into the placeholder, success: true; a number passes through.
ProcessAI(ai, beh) ==
    CASE beh \in BodyTexts ->
            Outcome(ai, beh, FALSE, <<>>, <<>>, <<>>, beh)
      [] beh \in {"empty", "absent"} ->
            Outcome(ai, "No response", FALSE, <<>>, <<>>, <<>>, beh)
      [] beh = "number" ->
            Outcome(ai, "number", FALSE, <<>>, <<>>, <<>>, beh)
      [] OTHER ->
            Outcome(ai, "undefined", TRUE, <<>>, <<>>, <<>>, beh)

\* the catch of the loop's inner try: { error, success: false }
LedgerFailed(ai, cause) ==
    Outcome(ai, "undefined", TRUE, <<>>, <<>>, <<>>, cause)

\* a request to deduct-credits.php / refund-credits.php and its answer
LedgerCall(op, amount, answer) ==
    [op |-> op, amount |-> amount, answer |-> answer]

\* What deduct-credits.php does with the deduction: the answers of Answers,
\* its body being JSON, or a 2xx / non-2xx answer whose body is no JSON
\* (deductResponse.json() throws before deductResponse.ok is read).
DeductAnswers == Answers \cup {"okNoJson", "rejectedNoJson"}

\* The method tests, the parse and the deduction.  selectedAIs.join throws
\* before the fetch when the list is missing; a fetch or a json() that
\* throws lands in the outer catch.
LedgerStart ==
    /\ variant = "ledger"
    /\ pc = "start"
    /\ IF method = "OPTIONS" THEN
            Respond(200, "preflight") /\ UNCHANGED ledger
       ELSE IF ~MethodAllowed(method) THEN
            Respond(405, "methodNotAllowed") /\ UNCHANGED ledger
       ELSE IF ~bodyOk \/ ~selPresent THEN
            Respond(500, "error") /\ UNCHANGED ledger
       ELSE \E answer \in DeductAnswers :
            /\ ledger' = Append(ledger,
                                LedgerCall("deduct", creditsUsed, answer))
            /\ CASE answer = "ok" -> pc' = "loop" /\ UNCHANGED resp
                 [] answer = "rejected" -> Respond(400, "deductRejected")
                 [] OTHER -> Respond(500, "error")
    /\ UNCHANGED <<input, forwards, idx, calls, results, failedCount, allSuccessful,
                   emails, report>>

\* One turn of the loop up to its await: processAI throws at once for a
\* name getAIConfig does not know, and issues the fetch for the others.
LedgerLoop ==
    /\ variant = "ledger"
    /\ pc = "loop"
    /\ ~LoopDone
    /\ LET ai == LoopList[idx] IN
       IF ai \notin KnownAIs
       THEN /\ results' = Put(results, LedgerFailed(ai, "noConfig"))
            /\ allSuccessful' = FALSE
            /\ idx' = idx + 1
            /\ UNCHANGED <<pc, calls>>
       ELSE /\ calls' = Append(calls, Fetch(ai, TRUE))
            /\ pc' = "call"
            /\ UNCHANGED <<results, allSuccessful, idx>>
    /\ UNCHANGED <<input, forwards, failedCount, ledger, emails, report, resp>>

\* processAI settles and the loop's turn ends
LedgerSettle ==
    /\ variant = "ledger"
    /\ pc = "call"
    /\ \E beh \in Behaviours :
        LET i == Len(calls)
            o == ProcessAI(calls[i].ai, beh)
        IN  /\ calls' = [calls EXCEPT ![i].st = "settled", ![i].beh = beh]
            /\ results' = Put(results, o)
            /\ allSuccessful' = (allSuccessful /\ ~o.error)
    /\ idx' = idx + 1
    /\ pc' = "loop"
    /\ UNCHANGED <<input, forwards, failedCount, ledger, emails, report, resp>>

\* AbortSignal.timeout(30000) fires on a call still unanswered
LedgerTimeout ==
    /\ variant = "ledger"
    /\ pc = "call"
    /\ LET i == Len(calls) IN
        /\ calls[i].timer
        /\ calls' = [calls EXCEPT ![i].st = "timedout"]
        /\ results' = Put(results, LedgerFailed(calls[i].ai, "timeout"))
    /\ allSuccessful' = FALSE
    /\ idx' = idx + 1
    /\ pc' = "loop"
    /\ UNCHANGED <<input, forwards, failedCount, ledger, emails, report, resp>>

\* const successfulAIs = ...; const failedCredits = creditsUsed - successfulAIs
FailedCredits(res) ==
    creditsUsed - Cardinality({i \in DOMAIN res : ~res[i].error})

\* After the loop: the e-mail (a failure is swallowed), the partial refund
\* when some provider failed, the 200 response.  A refund fetch that throws
\* lands in the catch of the processing try: a full refund is attempted,
\* its own failure swallowed, and the answer is 500 with refunded: true.
LedgerFinish ==
    /\ variant = "ledger"
    /\ pc = "loop"
    /\ LoopDone
    /\ \E mail \in Answers, refund \in Answers, full \in Answers :
        LET partial == ~allSuccessful /\ FailedCredits(results) > 0 IN
        /\ partial \/ refund = "ok"
        /\ (partial /\ refund = "neterr") \/ full = "ok"
        /\ emails' = Append(emails, mail)
        /\ ledger' = ledger
               \o (IF partial
                   THEN <<LedgerCall("refund", FailedCredits(results), refund)>>
                   ELSE <<>>)
               \o (IF partial /\ refund = "neterr"
                   THEN <<LedgerCall("refund", creditsUsed, full)>>
                   ELSE <<>>)
        /\ resp' = IF partial /\ refund = "neterr"
                   THEN [status |-> 500, kind |-> "error", refunded |-> TRUE]
                   ELSE [status |-> 200, kind |-> "ok",
                         emailSent |-> mail = "ok"]
    /\ pc' = "done"
    /\ UNCHANGED <<input, forwards, idx, calls, results, failedCount, allSuccessful,
                   report>>

NextLedger ==
    LedgerStart \/ LedgerLoop \/ LedgerSettle \/ LedgerTimeout \/ LedgerFinish

SpecLedger == InitFor("ledger") /\ [][NextLedger]_vars

---------------------------------------------------------------------------
(* src/netlify/functions/paypal-webhook.js, the webhook (lines 1-121).     *)

\* What a payload that parses announces: an event of another type; a
\* PAYMENT.CAPTURE.COMPLETED event with its resource and amount; one
\* without them (resource.id or resource.amount.value throws).
WebhookEvents == {"other", "completed", "malformed"}

\* prompt: "Sample AI test prompt", // Default
WebhookDefaultPrompt == "text"

\* selectedAIs: ['ChatGPT', 'Claude', 'Gemini'], // Default
WebhookDefaultAIs == <<"ChatGPT", "Claude", "Gemini">>

\* A webhook request.  prompt, selPresent and selectedAIs are the fields of
\* the JSON in resource.custom_id; a custom_id that is absent or does not
\* parse overrides nothing, as a custom_id without these fields does.
InitWebhook ==
    /\ variant = "webhook"
    /\ method \in Methods
    /\ bodyOk \in BOOLEAN
    /\ event \in WebhookEvents
    /\ prompt \in Prompts
    /\ selPresent \in BOOLEAN
    /\ selectedAIs \in SeqsUpTo(InputNames, MaxSel)
    /\ (method = "POST" /\ bodyOk) \/ event = "other"
    /\ event = "completed" \/ (prompt = "missing" /\ ~selPresent)
    /\ selPresent \/ selectedAIs = <<>>
    /\ keys = {}
    /\ creditsUsed = 0
    /\ emailValid = TRUE
    /\ toolType = "general"
    /\ pc = "start"
    /\ idx = 1
    /\ calls = <<>>
    /\ results = <<>>
    /\ failedCount = 0
    /\ allSuccessful = TRUE
    /\ ledger = <<>>
    /\ emails = <<>>
    /\ forwards = <<>>
    /\ report = NoReport
    /\ resp = NoResp

\* completeOrder with the custom data left out: the defaults
CompleteOrder_DefaultsOnly ==
    [prompt |-> WebhookDefaultPrompt, selectedAIs |-> WebhookDefaultAIs]

\* completeOrder = { ...orderData, ...customData, ...orderDetails }: the
\* fields of it the pipeline reads
CompleteOrder ==
    [prompt |-> IF prompt = "missing" THEN WebhookDefaultPrompt ELSE prompt,
     selectedAIs |-> IF selPresent THEN selectedAIs ELSE WebhookDefaultAIs]

\* The method tests, the parse, the event-type test and the fetch that
\* posts the order to process-ai-test.
WebhookStart ==
    /\ variant = "webhook"
    /\ pc = "start"
    /\ IF method = "OPTIONS" THEN
            Respond(200, "preflight") /\ UNCHANGED forwards
       ELSE IF ~MethodAllowed(method) THEN
            Respond(405, "methodNotAllowedText") /\ UNCHANGED forwards
       ELSE IF ~bodyOk \/ event = "malformed" THEN
            Respond(500, "error") /\ UNCHANGED forwards
       ELSE IF event # "completed" THEN
            Respond(200, "ack") /\ UNCHANGED forwards
       ELSE /\ forwards' = Append(forwards,
                                  [order |-> CompleteOrder, st |-> "pending"])
            /\ pc' = "forward"
            /\ UNCHANGED resp
    /\ UNCHANGED <<input, idx, calls, results, failedCount, allSuccessful,
                   ledger, emails, report>>

\* The fetch settles: whatever process-ai-test answers, and when the fetch
\* throws, the webhook answers 200.
WebhookSettle ==
    /\ variant = "webhook"
    /\ pc = "forward"
    /\ \E answer \in Answers :
        forwards' = [forwards EXCEPT ![Len(forwards)].st = answer]
    /\ Respond(200, "ok")
    /\ UNCHANGED <<input, idx, calls, results, failedCount, allSuccessful,
                   ledger, emails, report>>

NextWebhook == WebhookStart \/ WebhookSettle

SpecWebhook == InitWebhook /\ [][NextWebhook]_vars

---------------------------------------------------------------------------
(* analyzeResponse on its own: the two copies of the scorer applied to     *)
(* texts drawn from the table.                                             *)

\* the texts the scorer is applied to
ScorerTexts ==
    {"empty", "short", "tip", "medium", "long", "errword", "No response",
     "callErr:net", "callErr:httpBody", "callErr:httpStatus",
     "callErr:noPath"}

InitScorer ==
    /\ variant \in {"credits", "paypal"}
    /\ toolType \in (IF variant = "credits" THEN ToolTypes ELSE {"general"})
    /\ method = "POST"
    /\ bodyOk = TRUE
    /\ prompt = "text"
    /\ selPresent = FALSE
    /\ selectedAIs = <<>>
    /\ keys = {}
    /\ creditsUsed = 0
    /\ emailValid = TRUE
    /\ event = "none"
    /\ forwards = <<>>
    /\ pc = "score"
    /\ idx = 1
    /\ calls = <<>>
    /\ results = <<>>
    /\ failedCount = 0
    /\ allSuccessful = TRUE
    /\ ledger = <<>>
    /\ emails = <<>>
    /\ report = NoReport
    /\ resp = NoResp

\* analyzeResponse(response, provider, toolType) of the variant; neither
\* copy reads its provider argument.  The analysis is kept with the text.
AnalyzeResponse ==
    /\ pc = "score"
    /\ Len(results) < MaxScored
    /\ \E t \in ScorerTexts :
        LET a == IF variant = "credits"
                 THEN CreditsAnalyze(t, toolType)
                 ELSE PaypalAnalyze(t)
        IN  results' = Append(results,
                Outcome("ChatGPT", t, FALSE, <<a.score>>, a.pros, a.cons, t))
    /\ UNCHANGED <<input, forwards, pc, idx, calls, failedCount, allSuccessful, ledger,
                   emails, report, resp>>

NextScorer == AnalyzeResponse

SpecScorer == InitScorer /\ [][NextScorer]_vars

---------------------------------------------------------------------------

\* src/netlify/functions/process-ai-test.js: the two handlers of the file
InitProcessAITest == InitFor("credits") \/ InitFor("ledger")

NextProcessAITest == NextCredits \/ NextLedger

SpecProcessAITest == InitProcessAITest /\ [][NextProcessAITest]_vars

Next == NextTestAI \/ NextCredits \/ NextPaypal \/ NextLedger \/ NextWebhook

Spec == (Init \/ InitWebhook) /\ [][Next]_vars

---------------------------------------------------------------------------
(* Vocabulary of the properties.                                           *)

Responded == pc = "done"

\* the request passed the method test and the parse
Parsed == method = "POST" /\ bodyOk

\* the names the request asks for
Requested == Range(selectedAIs)

\* the variant counts the entry as a failed one: an error field where the
\* variant sets one, the "Error:" marker where it tests for that
CountedFailed(o) ==
    IF variant \in {"credits", "paypal"}
    THEN IncludesError(o.response)
    ELSE o.error

\* the provider call behind the entry failed, or was never made
CallFailed(o) == o.cause \in {"noKey", "noConfig", "timeout", "http", "net",
                              "noPath", "absent", "number"}

\* the variant has a call to make for this name
NeedsCall(ai) ==
    CASE variant = "testai" -> ai \in Range(TestAIOrder)
      [] variant = "ledger" -> ai \in KnownAIs
      [] OTHER -> ai \in keys

\* how many provider calls the request asks for in all
CallsToMake ==
    IF variant = "testai"
    THEN Len(TestAITargets(selectedAIs))
    ELSE Cardinality({j \in DOMAIN LoopList : NeedsCall(LoopList[j])})

\* the providers the request asks a call for
Wanted ==
    {ai \in (IF variant = "testai" THEN Requested ELSE Range(LoopList)) :
        NeedsCall(ai)}

AllSettled == \A i \in DOMAIN calls : calls[i].st = "settled"

---------------------------------------------------------------------------
(* The claims.                                                             *)

\* C1: for a request with a non-empty prompt and a non-empty selection,
\* once the handler has answered 200 the result set holds exactly one
\* entry per requested name, recognised or not.
C1_OneOutcomePerName ==
    (Responded /\ resp.status = 200 /\ prompt = "text"
     /\ selPresent /\ selectedAIs # <<>>)
    => /\ Keys(results) = Requested
       /\ Len(results) = Cardinality(Requested)

\* C2: no provider call waits for another provider's call to settle: while
\* any call is unanswered, every call the request asks for has been issued.
C2_AllCallsIssuedTogether ==
    (\E i \in DOMAIN calls : Pending(i))
    => \A ai \in Wanted : \E j \in DOMAIN calls : calls[j].ai = ai

\* C3 (src/test-ai.js): the response, and the analysis, are built only
\* after every selected provider's call has settled; a failed call never
\* brings the response forward.
C3_RespondsAfterAllSettled ==
    (Responded \/ report.built)
    => \/ calls = <<>> /\ (resp.status # 200 \/ CallsToMake = 0)
       \/ Len(calls) = CallsToMake /\ AllSettled

\* C3's case: a 200 response to a request with two calls of which one
\* failed in transport and one returned a text.
C3_Witness ==
    /\ Responded /\ resp.status = 200 /\ Len(calls) >= 2
    /\ \E i \in DOMAIN calls : calls[i].beh = "net"
    /\ \E i \in DOMAIN calls : calls[i].beh \in BodyTexts

\* C4: every provider call in flight is bounded by a timeout.
C4_EveryCallHasTimeout ==
    \A i \in DOMAIN calls : Pending(i) => calls[i].timer

\* C5: no network call goes to a provider whose credential is absent.
C5_NoCallWithoutCredential ==
    \A i \in DOMAIN calls : calls[i].keyed

\* C6: whatever one provider call does, a request that reached dispatch and
\* suffers no other fault is answered 200 with an entry for every provider
\* that was called.
C6_ProviderFailureNever500 ==
    (Responded /\ calls # <<>>
     /\ ~(variant = "testai" /\ prompt = "missing")
     /\ ~(\E k \in DOMAIN ledger : ledger[k].answer = "neterr"))
    => /\ resp.status = 200
       /\ {calls[i].ai : i \in DOMAIN calls} \subseteq Keys(results)

\* C7: a 2xx body whose text path is absent or empty gives a failed entry,
\* never a successful one.
C7_ShapeErrorIsFailure ==
    \A i \in DOMAIN results :
        results[i].cause \in {"absent", "empty", "noPath"}
        => CountedFailed(results[i])

\* C8: a parsed request with an empty or missing prompt, or an empty
\* selection, is answered 400 or 500 with no provider call, no ledger
\* request and no e-mail.
C8_InvalidRequestRejected ==
    (Parsed /\ (prompt # "text" \/ (selPresent /\ selectedAIs = <<>>)))
    => /\ calls = <<>> /\ ledger = <<>> /\ emails = <<>>
       /\ Responded => resp.status \in {400, 500}

\* C9: when some selected provider succeeded, the provider the report
\* names as winner is one whose call succeeded.
C9_WinnerSucceeded ==
    (report.built /\ report.winner # <<>>
     /\ \E i \in DOMAIN results : Succeeded(results[i]))
    => \E i \in DOMAIN results :
          results[i].ai = report.winner[1] /\ Succeeded(results[i])

\* C10 (credits and paypal variants): an entry whose call failed or was
\* never made carries score 0, no pros and exactly one con.
C10_FailedOutcomeFixedAnalysis ==
    \A i \in DOMAIN results :
        (variant \in {"credits", "paypal"} /\ CallFailed(results[i]))
        => /\ results[i].score = <<0>>
           /\ results[i].pros = <<>>
           /\ Len(results[i].cons) = 1

---------------------------------------------------------------------------
(* Credit figures and the report.                                          *)

\* the entries of results the variant counts as failed
FailedEntries == {i \in DOMAIN results : CountedFailed(results[i])}

\* C11: in the credits variant the creditInfo of the 200 response has
\* used = the request's creditsUsed, refunded = the number of failed
\* entries of the result set (each counted once, also when a name is listed
\* twice) and net = used - refunded.
C11_RefundedCountsFailedOutcomes ==
    (variant = "credits" /\ Responded /\ resp.kind = "ok")
    => /\ resp.creditInfo.used = creditsUsed
       /\ resp.creditInfo.refunded = Cardinality(FailedEntries)
       /\ resp.creditInfo.net = resp.creditInfo.used - resp.creditInfo.refunded

\* C12: the credits refunded never exceed the credits used and net is never
\* negative: in the credits variant 0 <= refunded <= used and net >= 0, in
\* the ledger variant every refund requested is for 0..creditsUsed credits.
C12_RefundWithinUsed ==
    /\ (variant = "credits" /\ Responded /\ resp.kind = "ok")
       => /\ 0 <= resp.creditInfo.refunded
          /\ resp.creditInfo.refunded <= resp.creditInfo.used
          /\ resp.creditInfo.net >= 0
    /\ \A k \in DOMAIN ledger :
          ledger[k].op = "refund"
          => ledger[k].amount >= 0 /\ ledger[k].amount <= creditsUsed

\* C13: a report built from entries that all failed states the total
\* failure and the refund and has no per-provider section, no winner line
\* and no recommendation; a report built from entries of which one did not
\* fail has a section for every provider of the result set.
C13_AllFailedReportShortCircuits ==
    (report.built /\ variant \in {"credits", "paypal"})
    => IF FailedEntries = DOMAIN results
       THEN /\ report.allFailed
            /\ ~report.detail
            /\ report.winner = <<>>
            /\ ~report.recommend
       ELSE /\ report.detail
            /\ Range(report.ranked) = Keys(results)
            /\ Len(report.ranked) = Len(results)

---------------------------------------------------------------------------
(* The scorer.                                                             *)

\* the entries analyzeResponse produced in a behaviour of SpecScorer
Scored == IF pc = "score" THEN DOMAIN results ELSE {}

\* C14: scoring the empty text returns score 0 (and returns: no exception).
C14_EmptyTextScoresZero ==
    \A i \in Scored : results[i].response = "empty" => results[i].score = <<0>>

\* The score the specification prescribes, in tenths, for flags g and
\* measurements f: the variant's base and actionable weight, 1.5 for
\* detailed, 1 for structure, 1 for coherent, 0.5 for examples, 0.5 for more
\* than 300 characters, 0.5 for more than one paragraph, the domain bonuses,
\* capped at 10.
PrescribedScore(base, actionable, g, f, domain) ==
    Min(100, base
             + (IF g.detailed THEN 15 ELSE 0)
             + (IF g.structure THEN 10 ELSE 0)
             + (IF g.coherent THEN 10 ELSE 0)
             + (IF g.examples THEN 5 ELSE 0)
             + (IF g.actionable THEN actionable ELSE 0)
             + (IF f.len > 300 THEN 5 ELSE 0)
             + (IF f.paras > 1 THEN 5 ELSE 0)
             + domain)

\* C15: for every text scored, the score is the prescribed sum of the
\* weights of its flags, with the length bonus from 301 characters and the
\* paragraph bonus from 2 paragraphs.
C15_ScoreIsPrescribedSum ==
    \A i \in Scored :
        LET t == results[i].response
            f == Feat(t)
            domain == (IF toolType # "general" /\ f.fin THEN 5 ELSE 0)
                      + (IF toolType # "general" /\ f.mkt THEN 5 ELSE 0)
        IN  results[i].score =
                IF variant = "credits"
                THEN <<PrescribedScore(60, 10, CreditsFlags(t), f, domain)>>
                ELSE <<PrescribedScore(50, 5, PaypalFlags(t), f, 0)>>

\* the text has none of the markers hasStructure looks for
NoStructureMarker(t) ==
    LET f == Feat(t)
    IN  ~(f.nl \/ f.star \/ f.dash \/ f.oneDot \/ f.digitDot \/ f.bullet)

\* C16: a text of under 50 words without a structure marker gets a score in
\* [5, 6.5] and a cons list that holds the brevity con and the formatting con.
C16_BriefUnstructuredText ==
    \A i \in Scored :
        LET t == results[i].response
            cons == Range(results[i].cons)
        IN  (Feat(t).words < 50 /\ NoStructureMarker(t))
            => /\ results[i].score[1] >= 50
               /\ results[i].score[1] <= 65
               /\ IF variant = "credits"
                  THEN /\ "Analysis could be more comprehensive" \in cons
                       /\ "Could improve formatting structure" \in cons
                  ELSE /\ "Quite brief" \in cons
                       /\ "Could use better formatting" \in cons

---------------------------------------------------------------------------
(* Ranking.                                                                *)

\* the list whose order is the request's selection order
SelectionOrder == IF variant = "testai" THEN selectedAIs ELSE LoopList

\* where the request first names ai
SelPos(ai) ==
    CHOOSE k \in DOMAIN SelectionOrder :
        /\ SelectionOrder[k] = ai
        /\ \A j \in 1..(k - 1) : SelectionOrder[j] # ai

\* the entries that carry a score no other entry exceeds
TopScored ==
    {i \in DOMAIN results :
        /\ results[i].score # <<>>
        /\ \A j \in DOMAIN results :
              results[j].score # <<>>
              => results[j].score[1] <= results[i].score[1]}

\* C17: the report ranks the providers by non-increasing score, and the
\* winner is, among the providers with the highest score, the one the
\* request names first, whatever the order in which the calls completed.
C17_WinnerFollowsSelectionOrder ==
    (report.built /\ report.winner # <<>> /\ TopScored # {})
    => /\ \E i \in TopScored :
            /\ results[i].ai = report.winner[1]
            /\ \A j \in TopScored :
                  SelPos(results[i].ai) <= SelPos(results[j].ai)
       /\ \A a, b \in DOMAIN report.ranked :
            a < b => Get(results, report.ranked[a]).score[1]
                     >= Get(results, report.ranked[b]).score[1]

---------------------------------------------------------------------------
(* The e-mail.                                                             *)

\* the delivery of the results failed: the e-mail service rejected the
\* request or the fetch threw, or (credits variant) the address was invalid
\* and nothing was sent
EmailFailed ==
    \/ emails # <<>> /\ emails[Len(emails)] # "ok"
    \/ variant = "credits" /\ ~emailValid /\ report.built

\* the fetch to refund-credits.php threw
RefundThrew ==
    \E k \in DOMAIN ledger :
        ledger[k].op = "refund" /\ ledger[k].answer = "neterr"

\* C18: a failed delivery of the e-mail leaves the request answered 200
\* with emailSent false (the one 500 after the e-mail is that of a refund
\* fetch that threw), the credit figures are those the loop counted, and the
\* step that sends the e-mail changes no entry of the result set.
C18_EmailFailureKeepsStatus ==
    /\ [](Responded /\ EmailFailed /\ ~RefundThrew
          => /\ resp.status = 200
             /\ resp.kind = "ok"
             /\ ~resp.emailSent
             /\ variant = "credits"
                => resp.creditInfo = [used |-> creditsUsed,
                                      refunded |-> failedCount,
                                      net |-> creditsUsed - failedCount])
    /\ [][emails' # emails
          => results' = results /\ failedCount' = failedCount]_vars

C18_Witness ==
    /\ Responded
    /\ emails # <<>>
    /\ emails[Len(emails)] = "rejected"
    /\ resp.status = 200
    /\ ~resp.emailSent
    /\ \E i \in DOMAIN results : Succeeded(results[i])

---------------------------------------------------------------------------
(* The method tests.                                                       *)

\* C19: a request that is not a POST is answered 200 with the preflight
\* headers when it is OPTIONS and 405 otherwise, and nothing is processed
\* for it: no provider call, no entry, no deduction or refund, no e-mail, no
\* order forwarded.
C19_NonPostNoProcessing ==
    method # "POST"
    => /\ calls = <<>>
       /\ results = <<>>
       /\ ledger = <<>>
       /\ emails = <<>>
       /\ forwards = <<>>
       /\ ~report.built
       /\ Responded
          => IF method = "OPTIONS"
             THEN resp.status = 200 /\ resp.kind = "preflight"
             ELSE resp.status = 405

C19_Witness ==
    /\ variant = "webhook"
    /\ method = "GET"
    /\ Responded
    /\ resp.status = 405

---------------------------------------------------------------------------
(* Failure responses.                                                      *)

\* the kinds of response whose body is JSON.stringify of an object
JsonKinds == {"ok", "ack", "methodNotAllowed", "deductRejected", "error",
              "errorWithMessage"}

\* the kinds of response whose body carries error.message of the exception
\* caught
LeakingKinds == {"errorWithMessage"}

\* C20: every 405, 400 and 500 response has a JSON body, and the body of a
\* 500 carries a fixed message only, never the message of the exception.
C20_FailureBodyJsonGeneric ==
    (Responded /\ resp.status \in {400, 405, 500})
    => /\ resp.kind \in JsonKinds
       /\ resp.status = 500 => resp.kind \notin LeakingKinds

---------------------------------------------------------------------------
(* The credit ledger.                                                      *)

\* the ledger answered the deduction with a 2xx status
DeductAccepted ==
    /\ ledger # <<>>
    /\ ledger[1].op = "deduct"
    /\ ledger[1].answer \in {"ok", "okNoJson"}

\* the refund requests sent so far
Refunds == SelectSeq(ledger, LAMBDA c : c.op = "refund")

\* C21: in the ledger variant, a request whose deduction the ledger accepted
\* (for a positive creditsUsed) and which is answered 500 has had a refund
\* of the full creditsUsed requested before the response.
C21_Deducted500Refunded ==
    (variant = "ledger" /\ Responded /\ resp.status = 500 /\ DeductAccepted
     /\ creditsUsed > 0)
    => \E k \in DOMAIN Refunds : Refunds[k].amount = creditsUsed

---------------------------------------------------------------------------
(* The webhook.                                                            *)

\* the webhook read a payload that parses
WebhookRead == variant = "webhook" /\ method = "POST" /\ bodyOk

\* C22: the webhook posts to process-ai-test once for a well-formed
\* PAYMENT.CAPTURE.COMPLETED event, the order carrying the prompt and the
\* providers of the custom data (the defaults where it has none), and
\* answers 200; for an event of another type it posts nothing and
\* acknowledges with 200.
C22_WebhookForwardsOnce ==
    variant = "webhook"
    => /\ Len(forwards) <= 1
       /\ forwards # <<>>
          => /\ WebhookRead /\ event = "completed"
             /\ forwards[1].order.prompt =
                    (IF prompt = "missing" THEN "text" ELSE prompt)
             /\ forwards[1].order.selectedAIs =
                    (IF selPresent THEN selectedAIs
                     ELSE <<"ChatGPT", "Claude", "Gemini">>)
       /\ (Responded /\ WebhookRead /\ event = "completed")
          => Len(forwards) = 1 /\ resp.status = 200
       /\ (Responded /\ WebhookRead /\ event = "other")
          => forwards = <<>> /\ resp.status = 200 /\ resp.kind = "ack"

C22_Witness ==
    /\ WebhookRead
    /\ event = "completed"
    /\ Responded
    /\ Len(forwards) = 1
    /\ forwards[1].st = "rejected"
    /\ forwards[1].order.selectedAIs = <<"Claude", "Mistral">>
    /\ forwards[1].order.prompt = "text"

\* the ledger refused the deduction: a non-2xx answer
DeductRejected ==
    /\ ledger # <<>>
    /\ ledger[1].op = "deduct"
    /\ ledger[1].answer \in {"rejected", "rejectedNoJson"}

\* C23: in the ledger variant no provider is called, no entry is stored and
\* no e-mail is sent before the ledger has accepted the deduction; a
\* request whose deduction the ledger refused is answered 400 and has no
\* provider call, no e-mail and no refund.
C23_DeductionFirst ==
    variant = "ledger"
    => /\ (calls # <<>> \/ results # <<>> \/ emails # <<>> \/ Refunds # <<>>)
          => ledger # <<>> /\ ledger[1] = LedgerCall("deduct", creditsUsed, "ok")
       /\ DeductRejected
          => /\ calls = <<>> /\ emails = <<>> /\ Refunds = <<>>
             /\ Responded /\ resp.status = 400

\* the entries of the ledger variant's aiResults that record a failure
LedgerFailedEntries == {i \in DOMAIN results : results[i].error}

\* C24: in the ledger variant, a request that completes with failed
\* providers has one refund requested, for as many credits as providers
\* failed; one that completes without a failed provider has none requested.
C24_RefundEqualsFailedProviders ==
    (variant = "ledger" /\ Responded /\ resp.status = 200 /\ resp.kind = "ok")
    => IF LedgerFailedEntries # {}
       THEN /\ Len(Refunds) = 1
            /\ Refunds[1].amount = Cardinality(LedgerFailedEntries)
       ELSE Refunds = <<>>

RECURSIVE SumAmounts(_)
\* the credits asked back by the refund requests of s, in all
SumAmounts(s) == IF s = <<>> THEN 0 ELSE Head(s).amount + SumAmounts(Tail(s))

\* C25: in the ledger variant the refund requests of one request never ask
\* back more than creditsUsed in all, whatever the ledger answered to each.
C25_TotalRefundWithinUsed ==
    variant = "ledger" => SumAmounts(Refunds) <= creditsUsed

---------------------------------------------------------------------------
(* Classification and the winner.                                          *)

\* C26: in the credits variant an entry is classified as failed (counted in
\* failedCount, listed in failedAIs, rendered FAILED) exactly when its
\* provider call failed or its key was missing; the text of a call that
\* succeeded never makes it failed.
C26_FailedIffCallFailed ==
    variant = "credits"
    => /\ \A i \in DOMAIN results :
            CountedFailed(results[i]) <=> CallFailed(results[i])
       /\ (Responded /\ resp.kind = "ok")
          => \A n \in Range(resp.failedAIs) : CallFailed(Get(results, n))

\* C27: for a request that selects at least one provider, the winner the
\* report names is a provider the request selected and the result set
\* holds, also when every selected provider failed.
C27_WinnerIsSelected ==
    (report.built /\ report.winner # <<>> /\ SelectionOrder # <<>>)
    => /\ report.winner[1] \in Range(SelectionOrder)
       /\ report.winner[1] \in Keys(results)

\* C28: in the ledger variant a 500 response that says refunded: true was
\* preceded by a refund of the whole creditsUsed that the ledger accepted.
C28_RefundedOnlyWhenAccepted ==
    (variant = "ledger" /\ Responded /\ resp.status = 500
     /\ "refunded" \in DOMAIN resp /\ resp.refunded)
    => /\ Refunds # <<>>
       /\ Refunds[Len(Refunds)].amount = creditsUsed
       /\ Refunds[Len(Refunds)].answer = "ok"

===========================================================================
